---- MODULE Spec2Model ----
(***************************************************************************)
(* BrainSync Pro (src/app.py): the question router ask_question, the       *)
(* history formatter get_conversation_summary and the three front ends     *)
(* that drive them (the Gradio submit/clear handlers, the CLI loop and     *)
(* the startup path of main).                                              *)
(*                                                                         *)
(* Python strings are TLA+ strings; characters are read with SubSeq.       *)
(* The emoji of the source's literals, with the blanks that follow them,   *)
(* are left out of the literals here (the parser accepts ASCII only);      *)
(* every other character is kept.                                          *)
(***************************************************************************)
EXTENDS Integers, Sequences, FiniteSets, TLC

VARIABLES
    conversation_history,  \* self.conversation_history: a list of records
    now,                   \* the wall clock, in whole seconds
    pc,                    \* where the running entry point is
    last,                  \* the latest ask_question call: inputs and result
    out,                   \* what the front end printed or returned last
    summary,               \* the latest get_conversation_summary result
    read,                  \* the line the CLI loop read in its latest pass
    thr,                   \* the submit events in progress, one per worker thread
    stats                  \* counts over the calls made so far

vars ==
    <<conversation_history, now, pc, last, out, summary, read, thr, stats>>

----------------------------------------------------------------------------
(* Bounds *)

MaxCalls == 2        \* ask_question calls in one run
MaxTime == 1         \* the clock's last second
MaxSumLen == 7       \* history length drawn for the formatter

MaxLongCalls == 11   \* ask_question calls in one run of the long session
MaxConcCalls == 2    \* submit events dispatched after the startup test
MaxCuts == 1         \* calls of a direct caller left by a keyboard interrupt

----------------------------------------------------------------------------
(* AppConfig *)

\* the k the session's ConversationBufferWindowMemory is constructed with;
\* ask_question and get_conversation_summary never use that memory
MEMORY_WINDOW == 10

----------------------------------------------------------------------------
(* Strings *)

Min(a, b) == IF a < b THEN a ELSE b

Chr(s, i) == SubSeq(s, i, i)

\* s[:n]
Slice(s, n) == SubSeq(s, 1, Min(n, Len(s)))

RECURSIVE Repeat(_, _)
Repeat(c, n) == IF n = 0 THEN "" ELSE c \o Repeat(c, n - 1)

\* The control characters U+000B and U+001C..U+001F, written as themselves
\* between the quotes (there is no escape for them).
VT == ""
FS == ""
GS == ""
RS == ""
US == ""

\* The ASCII characters str.strip() removes. It also removes the non-ASCII
\* blanks (U+0085, U+00A0, U+2003, ...), which a string here cannot hold.
Whitespace == {" ", "\t", "\n", "\r", "\f", VT, FS, GS, RS, US}

RECURSIVE LStrip(_)
LStrip(s) ==
    IF Len(s) = 0 THEN s
    ELSE IF Chr(s, 1) \in Whitespace THEN LStrip(SubSeq(s, 2, Len(s)))
    ELSE s

RECURSIVE RStrip(_)
RStrip(s) ==
    IF Len(s) = 0 THEN s
    ELSE IF Chr(s, Len(s)) \in Whitespace THEN RStrip(SubSeq(s, 1, Len(s) - 1))
    ELSE s

\* str.strip()
Strip(s) == RStrip(LStrip(s))

UpperAlpha == "ABCDEFGHIJKLMNOPQRSTUVWXYZ"
LowerAlpha == "abcdefghijklmnopqrstuvwxyz"

LowerChr(c) ==
    IF \E i \in 1..Len(UpperAlpha) : Chr(UpperAlpha, i) = c
    THEN LET i == CHOOSE j \in 1..Len(UpperAlpha) : Chr(UpperAlpha, j) = c
         IN  Chr(LowerAlpha, i)
    ELSE c

RECURSIVE Lower(_)
\* str.lower()
Lower(s) ==
    IF Len(s) = 0 THEN s
    ELSE LowerChr(Chr(s, 1)) \o Lower(SubSeq(s, 2, Len(s)))

Digits == "0123456789"

TwoDigits(n) == Chr(Digits, (n \div 10) + 1) \o Chr(Digits, (n % 10) + 1)

\* datetime.now().strftime("%Y-%m-%d %H:%M:%S"), for the seconds of one minute
Timestamp(t) == "2026-01-01 00:00:" \o TwoDigits(t)

\* round(seconds, 2) of an elapsed time given in milliseconds, in hundredths
\* of a second (the elapsed times drawn below are never on a tie)
Round2(ms) == (ms + 5) \div 10

----------------------------------------------------------------------------
(* Prompt templates: create_chains *)

Lit(text) == [kind |-> "lit", text |-> text]
Slot(name) == [kind |-> "var", text |-> name]

qa_template ==
    << Lit("You are a knowledgeable AI assistant. Provide clear, accurate, and helpful answers.\n\nQuestion: "),
       Slot("question"),
       Lit("\n\nAnswer: Provide a comprehensive response that is informative and easy to understand.") >>

creative_template ==
    << Lit("You are a creative writing assistant. Create engaging and imaginative content.\n\nRequest: "),
       Slot("request"),
       Lit("\nStyle: "),
       Slot("style"),
       Lit("\n\nCreative Response:") >>

analysis_template ==
    << Lit("You are a professional analyst. Provide detailed analysis and insights.\n\nTopic: "),
       Slot("topic"),
       Lit("\nFocus: "),
       Slot("focus"),
       Lit("\n\nProfessional Analysis:") >>

RECURSIVE Format(_, _)
\* PromptTemplate.format: every slot replaced by the value given for it
Format(template, values) ==
    IF template = <<>> THEN ""
    ELSE LET p == Head(template)
         IN  (IF p.kind = "lit" THEN p.text ELSE values[p.text])
             \o Format(Tail(template), values)

----------------------------------------------------------------------------
(* The external model collaborator: chain.invoke either returns a response *)
(* whose content is the answer text, or raises with an error text.         *)

Answers == {"42"}
Errors == {"429 quota exceeded", ""}

Outcomes ==
    [ok : {TRUE}, text : Answers] \cup [ok : {FALSE}, text : Errors]

\* time.time() - start_time of one call, in milliseconds
Elapsed == {4, 1236}

----------------------------------------------------------------------------
(* ProfessionalQASystem.ask_question *)

\* Variant: the test is on the question as typed, without strip()
EmptyInput_NoStrip(question) == Len(question) = 0

\* not question.strip()
EmptyInput(question) == Len(Strip(question)) = 0

\* Variant: the creative branch passes its two values in each other's slot
ChainPrompt_SwappedSlots(question, chain_type) ==
    IF chain_type = "qa"
    THEN Format(qa_template, [question |-> question])
    ELSE IF chain_type = "creative"
    THEN Format(creative_template,
                [request |-> "engaging and creative", style |-> question])
    ELSE IF chain_type = "analysis"
    THEN Format(analysis_template,
                [topic |-> question, focus |-> "comprehensive analysis"])
    ELSE Format(qa_template, [question |-> question])

\* the if/elif/else over chain_type: the prompt the selected chain hands to
\* the model
ChainPrompt(question, chain_type) ==
    IF chain_type = "qa"
    THEN Format(qa_template, [question |-> question])
    ELSE IF chain_type = "creative"
    THEN Format(creative_template,
                [request |-> question, style |-> "engaging and creative"])
    ELSE IF chain_type = "analysis"
    THEN Format(analysis_template,
                [topic |-> question, focus |-> "comprehensive analysis"])
    ELSE Format(qa_template, [question |-> question])

\* Variant: the record keeps the stripped question
Interaction_Stripped(t, question, answer, ms, chain_type) ==
    [timestamp |-> Timestamp(t),
     question |-> Strip(question),
     answer |-> answer,
     processing_time |-> Round2(ms),
     chain_type |-> chain_type]

\* the dict appended to conversation_history
Interaction(t, question, answer, ms, chain_type) ==
    [timestamp |-> Timestamp(t),
     question |-> question,
     answer |-> answer,
     processing_time |-> Round2(ms),
     chain_type |-> chain_type]

\* Variant: the answer is returned without being recorded
OnSuccess_NoAppend(hist, t, question, chain_type, answer, ms) ==
    [msg |-> answer, ok |-> TRUE, history |-> hist]

\* Variant: the new record is put at the head of the list
OnSuccess_Prepend(hist, t, question, chain_type, answer, ms) ==
    [msg |-> answer,
     ok |-> TRUE,
     history |-> <<Interaction(t, question, answer, ms, chain_type)>> \o hist]

\* Variant: the list keeps only its latest MEMORY_WINDOW records
OnSuccess_Window(hist, t, question, chain_type, answer, ms) ==
    LET h == Append(hist, Interaction(t, question, answer, ms, chain_type))
    IN  [msg |-> answer,
         ok |-> TRUE,
         history |-> SubSeq(h, Len(h) - Min(Len(h), MEMORY_WINDOW) + 1, Len(h))]

\* the rest of the try block once the chain has returned
OnSuccess(hist, t, question, chain_type, answer, ms) ==
    [msg |-> answer,
     ok |-> TRUE,
     history |-> Append(hist, Interaction(t, question, answer, ms, chain_type))]

\* Variant: the message leaves the error's text out
ErrorMessage_NoText(e) == "Error processing question: "

\* f"Error processing question: {str(e)}"
ErrorMessage(e) == "Error processing question: " \o e

\* Variant: the except block records the failed exchange
OnException_Appends(hist, e) ==
    [msg |-> "Error processing question: " \o e, ok |-> FALSE,
     history |-> Append(hist, [timestamp |-> Timestamp(0), question |-> "",
                               answer |-> e, processing_time |-> 0,
                               chain_type |-> "qa"])]

\* the except block
OnException(hist, e) ==
    [msg |-> ErrorMessage(e), ok |-> FALSE, history |-> hist]

\* Variant: a call whose chain raised invokes the chain a second time
ask_question_Retry(hist, t0, question, chain_type, outcome, ms) ==
    IF EmptyInput(question)
    THEN [msg |-> "Please enter a valid question.", ok |-> FALSE,
          history |-> hist, prompts |-> <<>>, now |-> t0]
    ELSE LET t1 == t0 + (ms \div 1000)
             p == ChainPrompt(question, chain_type)
         IN  IF outcome.ok
             THEN [msg |-> outcome.text, ok |-> TRUE,
                   history |-> Append(hist, Interaction(t1, question,
                                          outcome.text, ms, chain_type)),
                   prompts |-> <<p>>, now |-> t1]
             ELSE [msg |-> "Error processing question: " \o outcome.text,
                   ok |-> FALSE, history |-> hist,
                   prompts |-> <<p, p>>, now |-> t1]

\* ask_question(question, chain_type) on history hist, the call starting at
\* second t0, the collaborator answering with outcome after ms milliseconds.
\* prompts lists the prompts handed to the collaborator during the call.
ask_question(hist, t0, question, chain_type, outcome, ms) ==
    IF EmptyInput(question)
    THEN [msg |-> "Please enter a valid question.", ok |-> FALSE,
          history |-> hist, prompts |-> <<>>, now |-> t0]
    ELSE LET t1 == t0 + (ms \div 1000)
             r == IF outcome.ok
                  THEN OnSuccess(hist, t1, question, chain_type, outcome.text, ms)
                  ELSE OnException(hist, outcome.text)
         IN  [msg |-> r.msg, ok |-> r.ok, history |-> r.history,
              prompts |-> <<ChainPrompt(question, chain_type)>>, now |-> t1]

\* The places at which a KeyboardInterrupt can leave ask_question (its
\* except Exception does not catch one), named by what the call has done:
\* entered (the blank test, start_time), invoking (the prompt is with the
\* collaborator), answered (invoke has returned, the record is being
\* built), appended (the record is in the list, return not reached),
\* raised (in the except block, return not reached)
AskPoints(question, outcome) ==
    IF EmptyInput(question) THEN {"entered"}
    ELSE {"entered", "invoking"}
         \cup (IF outcome.ok THEN {"answered", "appended"} ELSE {"raised"})

\* ask_question left by a KeyboardInterrupt at point: the history, the
\* prompts handed over, the collaborator's outcome if it has come, the clock
ask_question_cut(hist, t0, question, chain_type, outcome, ms, point) ==
    LET t1 == t0 + (ms \div 1000)
        waiting == point \in {"entered", "invoking"}
    IN  [history |-> IF point = "appended"
                     THEN OnSuccess(hist, t1, question, chain_type,
                                    outcome.text, ms).history
                     ELSE hist,
         prompts |-> IF point = "entered" THEN <<>>
                     ELSE <<ChainPrompt(question, chain_type)>>,
         outcome |-> IF waiting THEN <<>> ELSE <<outcome>>,
         now |-> IF waiting THEN t0 ELSE t1]

----------------------------------------------------------------------------
(* ProfessionalQASystem.get_conversation_summary *)

RECURSIVE IntStr(_)
\* str(n) of a natural number
IntStr(n) ==
    IF n < 10 THEN Chr(Digits, n + 1)
    ELSE IntStr(n \div 10) \o Chr(Digits, (n % 10) + 1)

\* str(x) of a float rounded to two decimals, x given in hundredths
FloatStr(c) ==
    IntStr(c \div 100) \o "." \o
    (IF c % 10 = 0 THEN Chr(Digits, ((c % 100) \div 10) + 1)
     ELSE TwoDigits(c % 100))

\* Variant: the ellipsis is added from 100 characters on
ShownQuestion_AtLimit(q) ==
    Slice(q, 100) \o (IF Len(q) >= 100 THEN "..." ELSE "")

\* interaction['question'][:100] and the '...' after it
ShownQuestion(q) == Slice(q, 100) \o (IF Len(q) > 100 THEN "..." ELSE "")

\* interaction['answer'][:150] and the '...' after it
ShownAnswer(a) == Slice(a, 150) \o (IF Len(a) > 150 THEN "..." ELSE "")

\* the four lines one loop iteration adds to the summary
SummaryEntry(i, interaction) ==
    << "**" \o IntStr(i) \o ". [" \o interaction.timestamp \o "]**\n",
       "**Q:** " \o ShownQuestion(interaction.question) \o "\n",
       "**A:** " \o ShownAnswer(interaction.answer) \o "\n",
       "*Processing time: " \o FloatStr(interaction.processing_time) \o "s*\n\n" >>

\* Variant: the first five records, conversation_history[:5]
LastFive_First(hist) == SubSeq(hist, 1, Min(Len(hist), 5))

\* self.conversation_history[-5:]
LastFive(hist) == SubSeq(hist, Len(hist) - Min(Len(hist), 5) + 1, Len(hist))

\* The summary as its header and its entries in the order they are added;
\* SummaryText joins them into the returned string.
get_conversation_summary(hist) ==
    IF Len(hist) = 0
    THEN [header |-> "No conversation history available.", entries |-> <<>>]
    ELSE [header |-> "**Conversation Summary** (" \o IntStr(Len(hist))
                     \o " interactions)\n\n",
          entries |-> [i \in 1..Len(LastFive(hist)) |->
                          SummaryEntry(i, LastFive(hist)[i])]]

RECURSIVE JoinAll(_)
JoinAll(strs) == IF strs = <<>> THEN "" ELSE Head(strs) \o JoinAll(Tail(strs))

RECURSIVE JoinEntries(_)
JoinEntries(es) ==
    IF es = <<>> THEN "" ELSE JoinAll(Head(es)) \o JoinEntries(Tail(es))

SummaryText(s) == s.header \o JoinEntries(s.entries)

----------------------------------------------------------------------------
(* Inputs *)

\* a question made of characters strip() removes
BlankQuestion == " \t\n\r\f" \o VT \o FS \o GS \o RS \o US

Questions == {"", BlankQuestion, "What is AI?", " hi "}

\* "poem" stands for every value that is none of the three modes
ChainTypes == {"qa", "creative", "analysis", "poem"}

\* the values of the interface's Radio
UiChainTypes == {"qa", "creative", "analysis"}

\* lines read by input()
CliLines ==
    {"quit", " Exit ", "Q", "history", " HISTORY", "", "   ",
     "What is AI?", " hi ", "quit now"}

----------------------------------------------------------------------------
(* State *)

NoCall ==
    [op |-> "none", question |-> "", chain_type |-> "", outcome |-> <<>>,
     before |-> <<>>, added |-> <<>>, msg |-> "", ok |-> FALSE,
     prompts |-> <<>>, returned |-> FALSE]

NoSummary == [asked |-> FALSE, header |-> "", entries |-> <<>>]

\* calls entered, calls that returned ok=true, calls with a non-blank
\* question, prompts handed to the collaborator, calls left by a
\* KeyboardInterrupt
NoStats == [calls |-> 0, ok |-> 0, nonEmpty |-> 0, invoked |-> 0, cut |-> 0]

\* the worker threads the interface runs process_question on
Threads == {1, 2}

\* a worker thread's place in process_question and what it holds: the
\* arguments, start_time (start), the chain's answer, the milliseconds
\* between start_time and the second time.time() (elapsed), the second
\* datetime.now() gave (stamp), the list as it was when ask_question was
\* entered (before), the records the call has appended (added), and what
\* ask_question returned (msg, success)
Idle ==
    [pc |-> "idle", question |-> "", chain_type |-> "", start |-> 0,
     answer |-> "", elapsed |-> 0, stamp |-> 0, before |-> <<>>,
     added |-> <<>>, msg |-> "", success |-> FALSE]

NoThreads == [t \in Threads |-> Idle]

\* One of the three ways the program is run: a caller using a session
\* directly, main() (which launches the interface) or cli_mode().
Init ==
    /\ conversation_history = <<>>
    /\ now = 0
    /\ pc \in {"api", "main_start", "cli_loop"}
    /\ last = NoCall
    /\ out = <<>>
    /\ summary = NoSummary
    /\ read = <<>>
    /\ thr = NoThreads
    /\ stats = NoStats

\* the records of list h2 that are not those of the list h1 it grew from
Added(h1, h2) ==
    IF Len(h2) > Len(h1) THEN SubSeq(h2, Len(h1) + 1, Len(h2)) ELSE <<>>

\* the state no call has touched
Here ==
    [history |-> conversation_history, now |-> now, last |-> NoCall,
     stats |-> stats]

\* the state once an ask_question call made by caller op has returned, r
\* being what ask_question computes
AfterCall(op, question, chain_type, outcome, r) ==
    [history |-> r.history,
     now |-> r.now,
     last |-> [op |-> op, question |-> question, chain_type |-> chain_type,
               outcome |-> IF r.prompts = <<>> THEN <<>> ELSE <<outcome>>,
               before |-> conversation_history,
               added |-> Added(conversation_history, r.history),
               msg |-> r.msg, ok |-> r.ok, prompts |-> r.prompts,
               returned |-> TRUE],
     stats |-> [calls |-> stats.calls + 1,
                ok |-> stats.ok + (IF r.ok THEN 1 ELSE 0),
                nonEmpty |-> stats.nonEmpty
                             + (IF Len(Strip(question)) > 0 THEN 1 ELSE 0),
                invoked |-> stats.invoked + Len(r.prompts),
                cut |-> stats.cut]]

\* the state once an ask_question call made by caller op has been left by
\* a KeyboardInterrupt, c being what ask_question_cut computes
AfterCut(op, question, chain_type, c) ==
    [history |-> c.history,
     now |-> c.now,
     last |-> [op |-> op, question |-> question, chain_type |-> chain_type,
               outcome |-> c.outcome,
               before |-> conversation_history,
               added |-> Added(conversation_history, c.history),
               msg |-> "", ok |-> FALSE, prompts |-> c.prompts,
               returned |-> FALSE],
     stats |-> [calls |-> stats.calls + 1,
                ok |-> stats.ok,
                nonEmpty |-> stats.nonEmpty
                             + (IF Len(Strip(question)) > 0 THEN 1 ELSE 0),
                invoked |-> stats.invoked + Len(c.prompts),
                cut |-> stats.cut + 1]]

\* the session's part of the state becomes s
Becomes(s) ==
    /\ s.now <= MaxTime
    /\ conversation_history' = s.history
    /\ now' = s.now
    /\ last' = s.last
    /\ stats' = s.stats

\* The effect on the state of one ask_question call made by caller op, r
\* being what ask_question computes.
Called(op, question, chain_type, outcome, r) ==
    /\ Becomes(AfterCall(op, question, chain_type, outcome, r))
    /\ summary' = NoSummary

Summarized ==
    LET s == get_conversation_summary(conversation_history)
    IN  summary' = [asked |-> TRUE, header |-> s.header, entries |-> s.entries]

----------------------------------------------------------------------------
(* A caller using the session directly *)

ApiAsk ==
    /\ pc = "api"
    /\ UNCHANGED thr
    /\ read' = <<>>
    /\ stats.calls < MaxCalls
    /\ \E question \in Questions, chain_type \in ChainTypes,
          outcome \in Outcomes, ms \in Elapsed :
          Called("api", question, chain_type, outcome,
                 ask_question(conversation_history, now, question,
                              chain_type, outcome, ms))
    /\ out' = <<>>
    /\ UNCHANGED pc

\* ask_question left by a KeyboardInterrupt, which reaches the caller
ApiAskInterrupted ==
    /\ pc = "api"
    /\ stats.calls < MaxCalls
    /\ stats.cut < MaxCuts
    /\ \E question \in Questions, chain_type \in ChainTypes,
          outcome \in Outcomes, ms \in Elapsed :
          \E point \in AskPoints(question, outcome) :
             Becomes(AfterCut("api", question, chain_type,
                              ask_question_cut(conversation_history, now,
                                               question, chain_type,
                                               outcome, ms, point)))
    /\ summary' = NoSummary
    /\ out' = <<>>
    /\ read' = <<>>
    /\ UNCHANGED <<pc, thr>>

ApiSummary ==
    /\ pc = "api"
    /\ UNCHANGED thr
    /\ read' = <<>>
    /\ Summarized
    /\ last' = NoCall
    /\ out' = <<>>
    /\ UNCHANGED <<conversation_history, now, pc, stats>>

----------------------------------------------------------------------------
(* The interface's handlers: create_complete_interface *)

\* the status process_question returns with the answer
UiStatus(success) ==
    IF success
    THEN "<div style='color: green;'>Response generated successfully!</div>"
    ELSE "<div style='color: red;'>Error generating response</div>"

\* process_question(question, chain_type_val) with a blank question
UiSubmitBlank ==
    /\ pc = "main_launched"
    /\ UNCHANGED thr
    /\ read' = <<>>
    /\ \E question \in Questions, chain_type \in UiChainTypes :
          Len(Strip(question)) = 0
    /\ out' = <<"", "<div style='color: red;'>Please enter a question</div>">>
    /\ last' = NoCall
    /\ summary' = NoSummary
    /\ UNCHANGED <<conversation_history, now, pc, stats>>

\* the questions, answers and errors of the submit events
ConcQuestions == {"What is AI?"}

ConcAnswers == {"42"}

ConcErrors == {"429 quota exceeded"}

\* process_question(question, chain_type_val) otherwise. The framework runs
\* it on a worker thread and ask_question takes no lock, so its statements
\* interleave with those of the other thread's call: each of the steps
\* below is one stretch of a thread between two points where the other can
\* run. A thread goes idle, invoking, then either returned, stamped,
\* appended, asked or (the chain raising) asked, and idle again.

\* process_question up to chain.invoke: the blank tests pass, start_time is
\* read and the prompt is handed to the collaborator. The threads being
\* alike, the event goes to the first idle one.
UiSubmit(t) ==
    /\ pc = "main_launched"
    /\ thr[t].pc = "idle"
    /\ \A u \in Threads : u < t => thr[u].pc # "idle"
    /\ stats.calls < 1 + MaxConcCalls
    /\ \E question \in ConcQuestions, chain_type \in UiChainTypes :
          /\ Len(Strip(question)) > 0
          /\ ~EmptyInput(question)
          /\ thr' = [thr EXCEPT ![t] =
                        [Idle EXCEPT !.pc = "invoking", !.question = question,
                                     !.chain_type = chain_type, !.start = now,
                                     !.before = conversation_history]]
    /\ stats' = [stats EXCEPT !.calls = @ + 1, !.nonEmpty = @ + 1,
                              !.invoked = @ + 1]
    /\ UNCHANGED <<conversation_history, now, pc, last, out, summary, read>>

\* what ask_question on thread t has done, once it returns
UiLast(t, outcome, msg, ok) ==
    [op |-> "ui", question |-> thr[t].question,
     chain_type |-> thr[t].chain_type,
     outcome |-> <<outcome>>,
     before |-> thr[t].before,
     added |-> thr[t].added,
     msg |-> msg, ok |-> ok,
     prompts |-> <<ChainPrompt(thr[t].question, thr[t].chain_type)>>,
     returned |-> TRUE]

\* chain.invoke raises: the except block, up to ask_question's return
UiRaise(t) ==
    /\ thr[t].pc = "invoking"
    /\ \E e \in ConcErrors :
          LET r == OnException(conversation_history, e)
          IN  /\ conversation_history' = r.history
              /\ thr' = [thr EXCEPT ![t].pc = "asked",
                                    ![t].added =
                                        Added(conversation_history, r.history),
                                    ![t].msg = r.msg,
                                    ![t].success = r.ok]
              /\ last' = [UiLast(t, [ok |-> FALSE, text |-> e], r.msg, r.ok)
                            EXCEPT !.added =
                                       Added(conversation_history, r.history)]
    /\ UNCHANGED <<now, pc, out, summary, read, stats>>

\* chain.invoke returns: time.time() is read for processing_time, answer
\* is set
UiReturn(t) ==
    /\ thr[t].pc = "invoking"
    /\ \E answer \in ConcAnswers :
          thr' = [thr EXCEPT ![t].pc = "returned",
                             ![t].answer = answer,
                             ![t].elapsed = (now - thr[t].start) * 1000]
    /\ UNCHANGED <<conversation_history, now, pc, last, out, summary, read, stats>>

\* the record is built: datetime.now() is read for its timestamp
UiStamp(t) ==
    /\ thr[t].pc = "returned"
    /\ thr' = [thr EXCEPT ![t].pc = "stamped", ![t].stamp = now]
    /\ UNCHANGED <<conversation_history, now, pc, last, out, summary, read, stats>>

\* conversation_history.append(record); the call has not returned yet
UiAppend(t) ==
    /\ thr[t].pc = "stamped"
    /\ LET r == OnSuccess(conversation_history, thr[t].stamp,
                          thr[t].question, thr[t].chain_type,
                          thr[t].answer, thr[t].elapsed)
       IN  /\ conversation_history' = r.history
           /\ thr' = [thr EXCEPT ![t].pc = "appended",
                                 ![t].added =
                                     Added(conversation_history, r.history),
                                 ![t].msg = r.msg,
                                 ![t].success = r.ok]
    /\ UNCHANGED <<now, pc, last, out, summary, read, stats>>

\* return answer, True: ask_question returns to process_question
UiAskReturns(t) ==
    /\ thr[t].pc = "appended"
    /\ last' = UiLast(t, [ok |-> TRUE, text |-> thr[t].answer],
                      thr[t].msg, thr[t].success)
    /\ stats' = [stats EXCEPT !.ok = @ + (IF thr[t].success THEN 1 ELSE 0)]
    /\ thr' = [thr EXCEPT ![t].pc = "asked"]
    /\ UNCHANGED <<conversation_history, now, pc, out, summary, read>>

\* process_question makes the status and returns the answer with it
UiDone(t) ==
    /\ thr[t].pc = "asked"
    /\ out' = <<thr[t].msg, UiStatus(thr[t].success)>>
    /\ thr' = [thr EXCEPT ![t] = Idle]
    /\ UNCHANGED <<conversation_history, now, pc, last, summary, read, stats>>

\* the wall clock reaches its next second while the interface is serving
ClockTick ==
    /\ pc = "main_launched"
    /\ now < MaxTime
    /\ now' = now + 1
    /\ UNCHANGED <<conversation_history, pc, last, out, summary, read, thr, stats>>

\* clear_inputs()
UiClear ==
    /\ pc = "main_launched"
    /\ UNCHANGED thr
    /\ read' = <<>>
    /\ out' = <<"", "">>
    /\ last' = NoCall
    /\ summary' = NoSummary
    /\ UNCHANGED <<conversation_history, now, pc, stats>>

----------------------------------------------------------------------------
(* main *)

\* what main's body can raise outside ask_question: the session's
\* constructor (setup_model re-raises), create_complete_interface, or
\* demo_interface.launch; "none" when nothing is raised
MainRaises ==
    { [at |-> "none", text |-> ""],
      [at |-> "construct", text |-> "API key not valid"],
      [at |-> "interface", text |-> "theme unavailable"],
      [at |-> "launch", text |-> "Cannot find empty port in range: 7860-7959"] }

Rule60 == Repeat("=", 60)

\* after the system test: launch the interface, or return
MainNext(test_success, raised) ==
    IF test_success /\ ~raised THEN "main_launched" ELSE "main_returned"

\* the except block of main
MainExcept(text) ==
    << "Error starting application: " \o text,
       "Please check your API key and internet connection." >>

\* what main prints when the constructor raises
MainConstructOut(x) ==
    <<"Initializing BrainSync Pro...", Rule60>> \o MainExcept(x.text)

\* what main prints up to its system test
MainHead ==
    <<"Initializing BrainSync Pro...", Rule60,
      "\nTesting system functionality...">>

\* what main prints in all when its test call returned r and x is raised
MainOut(r, x) ==
    LET passed == <<"System test passed!",
                    "Test response: " \o Slice(r.msg, 100) \o "...",
                    "\nCreating professional interface...">>
        ready == <<"\nBrainSync Pro Ready!",
                   "Launching web interface...", Rule60>>
    IN  IF ~r.ok THEN MainHead \o <<"System test failed!">>
        ELSE IF x.at = "interface"
        THEN MainHead \o passed \o MainExcept(x.text)
        ELSE IF x.at = "launch"
        THEN MainHead \o passed \o ready \o MainExcept(x.text)
        ELSE MainHead \o passed \o ready

\* main() with the constructor raising: no ask_question call is made
MainConstructFails ==
    /\ pc = "main_start"
    /\ \E x \in MainRaises :
          /\ x.at = "construct"
          /\ out' = MainConstructOut(x)
    /\ pc' = "main_returned"
    /\ last' = NoCall
    /\ read' = <<>>
    /\ summary' = NoSummary
    /\ UNCHANGED <<conversation_history, now, thr, stats>>

\* main() from the system test to demo_interface.launch or to its return
MainStartup ==
    /\ pc = "main_start"
    /\ UNCHANGED thr
    /\ read' = <<>>
    /\ stats.calls < MaxCalls
    /\ \E outcome \in Outcomes, ms \in Elapsed, x \in MainRaises :
          LET r == ask_question(conversation_history, now,
                                "What is artificial intelligence?", "qa",
                                outcome, ms)
          IN  /\ x.at # "construct"
              /\ ~r.ok => x.at = "none"
              /\ Called("main", "What is artificial intelligence?", "qa",
                        outcome, r)
              /\ out' = MainOut(r, x)
              /\ pc' = MainNext(r.ok, x.at # "none")

\* The states in which a KeyboardInterrupt can find main, by what main has
\* printed and what its test call has done: before the test call (the
\* constructor raising or not), inside the test call, after it.
MainCuts ==
    LET q == "What is artificial intelligence?"
    IN  { [out |-> SubSeq(MainHead, 1, k), s |-> Here] : k \in 0..3 }
        \cup
        { [out |-> SubSeq(MainConstructOut(x), 1, k), s |-> Here] :
             x \in {y \in MainRaises : y.at = "construct"}, k \in 3..4 }
        \cup
        UNION { { [out |-> MainHead,
                   s |-> AfterCut("main", q, "qa",
                                  ask_question_cut(conversation_history, now,
                                                   q, "qa", o, ms, point))] :
                     point \in AskPoints(q, o) } :
                o \in Outcomes, ms \in Elapsed }
        \cup
        UNION { LET r == ask_question(conversation_history, now, q, "qa",
                                      w[1], w[2])
                    all == MainOut(r, w[3])
                IN  { [out |-> SubSeq(all, 1, k),
                       s |-> AfterCall("main", q, "qa", w[1], r)] :
                         k \in 3..Len(all) } :
                w \in { v \in Outcomes \X Elapsed \X MainRaises :
                           /\ v[3].at # "construct"
                           /\ ~v[1].ok => v[3].at = "none" } }

\* main() left by a KeyboardInterrupt, which its except Exception does not
\* catch: the interface is not launched
MainInterrupted ==
    /\ pc = "main_start"
    /\ stats.calls < MaxCalls
    /\ \E c \in MainCuts :
          /\ Becomes(c.s)
          /\ out' = c.out
    /\ pc' = "main_raised"
    /\ read' = <<>>
    /\ summary' = NoSummary
    /\ UNCHANGED thr

----------------------------------------------------------------------------
(* cli_mode *)

\* Variant: the commands are compared without lower()
CliCommand_CaseSensitive(line) ==
    LET question == Strip(line)
    IN  IF question \in {"quit", "exit", "q"} THEN "quit"
        ELSE IF question = "history" THEN "history"
        ELSE IF Len(question) = 0 THEN "empty"
        ELSE "ask"

\* the branch the loop takes on the line read
CliCommand(line) ==
    LET question == Strip(line)
    IN  IF Lower(question) \in {"quit", "exit", "q"} THEN "quit"
        ELSE IF Lower(question) = "history" THEN "history"
        ELSE IF Len(question) = 0 THEN "empty"
        ELSE "ask"

\* Variant: the loop ends when ask_question reports a failure
CliNext_BreakOnError(success) == IF success THEN "cli_loop" ELSE "cli_done"

\* where the loop is once ask_question has returned and its result is printed
CliNext(success) == "cli_loop"

CliQuit ==
    /\ pc = "cli_loop"
    /\ UNCHANGED thr
    /\ \E line \in CliLines :
          /\ CliCommand(line) = "quit"
          /\ read' = <<line>>
          /\ out' = <<"Goodbye!">>
    /\ pc' = "cli_done"
    /\ last' = NoCall
    /\ summary' = NoSummary
    /\ UNCHANGED <<conversation_history, now, stats>>

CliHistory ==
    /\ pc = "cli_loop"
    /\ UNCHANGED thr
    /\ Summarized
    /\ \E line \in CliLines :
          /\ CliCommand(line) = "history"
          /\ read' = <<line>>
          /\ out' = <<SummaryText(get_conversation_summary(conversation_history))>>
    /\ last' = NoCall
    /\ UNCHANGED <<conversation_history, now, pc, stats>>

CliEmpty ==
    /\ pc = "cli_loop"
    /\ UNCHANGED thr
    /\ \E line \in CliLines :
          /\ CliCommand(line) = "empty"
          /\ read' = <<line>>
          /\ out' = <<"Please enter a question.">>
    /\ last' = NoCall
    /\ summary' = NoSummary
    /\ UNCHANGED <<conversation_history, now, pc, stats>>

CliAsk ==
    /\ pc = "cli_loop"
    /\ UNCHANGED thr
    /\ stats.calls < MaxCalls
    /\ \E line \in CliLines, outcome \in Outcomes, ms \in Elapsed :
          LET question == Strip(line)
              r == ask_question(conversation_history, now, question, "qa",
                                outcome, ms)
          IN  /\ CliCommand(line) = "ask"
              /\ Called("cli", question, "qa", outcome, r)
              /\ read' = <<line>>
              /\ out' = <<"Thinking...",
                          IF r.ok THEN "\nAI Response:\n" \o r.msg
                          ELSE "\nError: " \o r.msg>>
              /\ pc' = CliNext(r.ok)

\* A state in which a KeyboardInterrupt can find a pass of the loop: the
\* line read, what the pass has printed, the session's state s, the summary
\* computed; caught tells whether the pass is inside the try body
CliAt(rd, o, s, sm, caught) ==
    [read |-> rd, out |-> o, s |-> s, summary |-> sm, caught |-> caught]

\* the states of a pass that has read line, before its last statement is done
CliLineCuts(line) ==
    LET question == Strip(line)
        cmd == CliCommand(line)
        sum == get_conversation_summary(conversation_history)
        S == [asked |-> TRUE, header |-> sum.header, entries |-> sum.entries]
        result(r) == IF r.ok THEN "\nAI Response:\n" \o r.msg
                     ELSE "\nError: " \o r.msg
    IN  {CliAt(<<line>>, <<>>, Here, NoSummary, TRUE)}
        \cup
        IF cmd = "quit"
        THEN {CliAt(<<line>>, <<"Goodbye!">>, Here, NoSummary, TRUE)}
        ELSE IF cmd = "history"
        THEN {CliAt(<<line>>, <<>>, Here, S, TRUE),
              CliAt(<<line>>, <<SummaryText(sum)>>, Here, S, TRUE)}
        ELSE IF cmd = "empty"
        THEN {CliAt(<<line>>, <<"Please enter a question.">>, Here,
                    NoSummary, TRUE)}
        ELSE {CliAt(<<line>>, <<"Thinking...">>, Here, NoSummary, TRUE)}
             \cup
             UNION { { CliAt(<<line>>, <<"Thinking...">>,
                             AfterCut("cli", question, "qa",
                                      ask_question_cut(conversation_history,
                                                       now, question, "qa",
                                                       o, ms, point)),
                             NoSummary, TRUE) :
                          point \in AskPoints(question, o) } :
                     o \in Outcomes, ms \in Elapsed }
             \cup
             UNION { LET r == ask_question(conversation_history, now,
                                           question, "qa", w[1], w[2])
                         s == AfterCall("cli", question, "qa", w[1], r)
                     IN  { CliAt(<<line>>, <<"Thinking...">>, s,
                                 NoSummary, TRUE),
                           CliAt(<<line>>, <<"Thinking...", result(r)>>, s,
                                 NoSummary, TRUE) } :
                     w \in Outcomes \X Elapsed }

\* what input() can raise besides KeyboardInterrupt
CliInputErrors == {"EOF when reading a line"}

\* every state in which a KeyboardInterrupt can find the loop: waiting in
\* input(), in a pass that has read a line, or in the except Exception
\* handler, which is outside the try body
CliCuts ==
    {CliAt(<<>>, <<>>, Here, NoSummary, TRUE),
     CliAt(<<>>, <<>>, Here, NoSummary, FALSE)}
    \cup
    { CliAt(<<>>, <<"\nUnexpected error: " \o e>>, Here, NoSummary, FALSE) :
         e \in CliInputErrors }
    \cup
    UNION { CliLineCuts(line) : line \in CliLines }

\* KeyboardInterrupt inside the try body, wherever the pass is: the loop's
\* except KeyboardInterrupt prints its goodbye and breaks
CliInterrupt ==
    /\ pc = "cli_loop"
    /\ \E c \in CliCuts :
          /\ c.caught
          /\ c.s.stats.calls <= MaxCalls
          /\ Becomes(c.s)
          /\ read' = c.read
          /\ summary' = c.summary
          /\ out' = c.out \o <<"\nGoodbye!">>
    /\ pc' = "cli_done"
    /\ UNCHANGED thr

\* KeyboardInterrupt outside the try body: in the except Exception handler,
\* at the end of a pass, or a second one in the except KeyboardInterrupt
\* handler before or after its print; it propagates out of cli_mode
CliEscape ==
    /\ pc = "cli_loop"
    /\ \E c \in CliCuts, printed \in BOOLEAN :
          /\ printed => c.caught
          /\ c.s.stats.calls <= MaxCalls
          /\ Becomes(c.s)
          /\ read' = c.read
          /\ summary' = c.summary
          /\ out' = IF printed THEN c.out \o <<"\nGoodbye!">> ELSE c.out
    /\ pc' = "cli_raised"
    /\ UNCHANGED thr

\* input() raises an Exception: the loop prints it and goes on
CliInputError ==
    /\ pc = "cli_loop"
    /\ \E e \in CliInputErrors : out' = <<"\nUnexpected error: " \o e>>
    /\ read' = <<>>
    /\ last' = NoCall
    /\ summary' = NoSummary
    /\ UNCHANGED <<conversation_history, now, pc, thr, stats>>

----------------------------------------------------------------------------

Next ==
    \/ ApiAsk
    \/ ApiAskInterrupted
    \/ ApiSummary
    \/ UiSubmitBlank
    \/ \E t \in Threads : UiSubmit(t)
    \/ \E t \in Threads : UiRaise(t)
    \/ \E t \in Threads : UiReturn(t)
    \/ \E t \in Threads : UiStamp(t)
    \/ \E t \in Threads : UiAppend(t)
    \/ \E t \in Threads : UiAskReturns(t)
    \/ \E t \in Threads : UiDone(t)
    \/ ClockTick
    \/ UiClear
    \/ MainConstructFails
    \/ MainStartup
    \/ MainInterrupted
    \/ CliQuit
    \/ CliHistory
    \/ CliEmpty
    \/ CliAsk
    \/ CliInterrupt
    \/ CliEscape
    \/ CliInputError

Spec == Init /\ [][Next]_vars

----------------------------------------------------------------------------
(* The formatter on longer histories: the session starts after n           *)
(* successful calls, one a second, each with one of the question/answer    *)
(* pairs below, and get_conversation_summary is applied to it.             *)

Q100 == Repeat("q", 100)
Q101 == Q100 \o "!"
A150 == Repeat("a", 150)
A151 == A150 \o "!"

SumPairs ==
    { <<"What is AI?", "42">>, <<Q100, A151>>, <<Q101, A150>> }

SumHistories ==
    UNION { { [k \in 1..n |-> Interaction(k, c[k][1], c[k][2], 1236, "qa")] :
              c \in [1..n -> SumPairs] } : n \in 0..MaxSumLen }

SumInit ==
    /\ conversation_history \in SumHistories
    /\ now = Len(conversation_history)
    /\ pc = "api"
    /\ last = NoCall
    /\ out = <<>>
    /\ summary = NoSummary
    /\ read = <<>>
    /\ thr = NoThreads
    /\ stats = [calls |-> Len(conversation_history),
                ok |-> Len(conversation_history),
                nonEmpty |-> Len(conversation_history),
                invoked |-> Len(conversation_history),
                cut |-> 0]

SumNext == ApiSummary

SumSpec == SumInit /\ [][SumNext]_vars

----------------------------------------------------------------------------
(* A long session: one caller putting the same question many times, the    *)
(* collaborator answering or raising each time.                            *)

LongOutcomes ==
    { [ok |-> TRUE, text |-> "42"], [ok |-> FALSE, text |-> "429 quota exceeded"] }

LongInit == Init /\ pc = "api"

LongAsk ==
    /\ pc = "api"
    /\ UNCHANGED thr
    /\ read' = <<>>
    /\ stats.calls < MaxLongCalls
    /\ \E outcome \in LongOutcomes :
          Called("api", "What is AI?", "qa", outcome,
                 ask_question(conversation_history, now, "What is AI?", "qa",
                              outcome, 4))
    /\ out' = <<>>
    /\ UNCHANGED pc

LongNext == LongAsk

LongSpec == LongInit /\ [][LongNext]_vars

----------------------------------------------------------------------------
(* Concurrent submit events alone: main runs its system test and launches  *)
(* the interface, then submit events run on the worker threads.            *)

ConcInit == Init /\ pc = "main_start"

ConcNext ==
    \/ MainStartup
    \/ UiSubmitBlank
    \/ \E t \in Threads : UiSubmit(t)
    \/ \E t \in Threads : UiRaise(t)
    \/ \E t \in Threads : UiReturn(t)
    \/ \E t \in Threads : UiStamp(t)
    \/ \E t \in Threads : UiAppend(t)
    \/ \E t \in Threads : UiAskReturns(t)
    \/ \E t \in Threads : UiDone(t)
    \/ ClockTick
    \/ UiClear

ConcSpec == ConcInit /\ [][ConcNext]_vars

----------------------------------------------------------------------------
(* Properties *)

\* the latest step was an ask_question call
Asked == last.op # "none"

\* list a is the head of list b
IsPrefix(a, b) == Len(a) <= Len(b) /\ SubSeq(b, 1, Len(a)) = a

\* the latest call has returned
Returned == Asked /\ last.returned

\* the latest call handed a prompt to the collaborator, which answered, and
\* has returned
ModelReturned == Returned /\ last.outcome # <<>> /\ last.outcome[1].ok

\* the latest call handed a prompt to the collaborator, which raised, and
\* has returned
ModelRaised == Returned /\ last.outcome # <<>> /\ ~last.outcome[1].ok

\* thread t's ask_question call returns in this step
UiAskReturnsIn(t) ==
    thr[t].pc \in {"invoking", "appended"} /\ thr'[t].pc = "asked"

\* a caller other than a worker thread makes a call in this step, and it
\* returns
CallReturns ==
    /\ stats'.calls = stats.calls + 1
    /\ thr' = thr
    /\ last'.op \notin {"none", "ui"}
    /\ last'.returned

\* the step is the return of an ask_question call with ok=false
ReturnsNotOk ==
    \/ CallReturns /\ ~last'.ok
    \/ \E t \in Threads : UiAskReturnsIn(t) /\ ~last'.ok

\* the worker threads that have appended their record and not returned yet
Appended == {t \in Threads : thr[t].pc = "appended"}

\* no ask_question call is under way on a worker thread
NoneRunning == \A t \in Threads : thr[t].pc \in {"idle", "asked"}

\* C1: after any sequence of ask_question calls (blank inputs, failures
\* and successes in any order), all of them having returned, the history
\* is as long as the number of calls that returned ok=true, and a call
\* that returns ok=false appends no record. While calls are under way,
\* every record beyond those of the ok=true returns is the one record of a
\* call that has appended and not returned yet, or of a call that a
\* keyboard interrupt ended.
Thm_C1_HistoryLengthIsOkCount ==
    /\ []((stats.cut = 0 /\ NoneRunning) =>
             Len(conversation_history) = stats.ok)
    /\ [](/\ stats.ok + Cardinality(Appended) <= Len(conversation_history)
          /\ Len(conversation_history)
                <= stats.ok + Cardinality(Appended) + stats.cut)
    /\ [][ReturnsNotOk => conversation_history' = conversation_history]_vars

\* a failed external call after a successful one
Wit_C1_FailureAfterSuccess ==
    /\ stats.calls = 2
    /\ stats.ok = 1
    /\ stats.cut = 0
    /\ ModelRaised
    /\ Len(conversation_history) = 1

\* C2: for an empty or whitespace-only question, in every mode,
\* ask_question returns the fixed message with ok=false and leaves the
\* history as it was.
Thm_C2_EmptyQuestionRejected ==
    (Asked /\ Len(Strip(last.question)) = 0) =>
        /\ last.returned =>
              /\ last.msg = "Please enter a valid question."
              /\ ~last.ok
        /\ conversation_history = last.before

\* a whitespace-only question in creative mode on a non-empty history
Wit_C2_WhitespaceCreative ==
    /\ Returned
    /\ last.question = BlankQuestion
    /\ last.chain_type = "creative"
    /\ Len(last.before) = 1

\* the record a step puts into the list belongs to the call that takes the
\* step: a worker thread at its append, or another caller's call
AppendedBy(rec) ==
    \/ \E t \in Threads : /\ thr[t].pc = "stamped"
                           /\ thr'[t].pc = "appended"
                           /\ thr'[t].added = <<rec>>
                           /\ rec.question = thr[t].question
                           /\ rec.chain_type = thr[t].chain_type
                           /\ rec.answer = thr[t].answer
    \/ /\ last'.op \notin {"none", "ui"}
       /\ stats'.calls = stats.calls + 1
       /\ thr' = thr
       /\ last'.added = <<rec>>

\* a step that changes the list puts one record behind those it found
AppendsOneLast ==
    conversation_history' # conversation_history =>
        /\ Len(conversation_history') = Len(conversation_history) + 1
        /\ conversation_history' =
              Append(conversation_history,
                     conversation_history'[Len(conversation_history')])
        /\ AppendedBy(conversation_history'[Len(conversation_history')])

\* C3: when the model answers a non-empty question, the call appends
\* exactly one record, placed last in the list as the append finds it,
\* holding the question as passed in, the mode as passed in and the
\* model's text, and the call returns that text with ok=true; a call made
\* with no other call under way returns with the list it was entered with
\* and that record.
Thm_C3_SuccessAppendsRecord ==
    /\ [](ModelReturned =>
             LET answer == last.outcome[1].text
             IN  /\ Len(last.added) = 1
                 /\ last.added[1].question = last.question
                 /\ last.added[1].chain_type = last.chain_type
                 /\ last.added[1].answer = answer
                 /\ last.msg = answer
                 /\ last.ok
                 /\ IsPrefix(last.before, conversation_history)
                 /\ \E i \in (Len(last.before) + 1)..Len(conversation_history) :
                       conversation_history[i] = last.added[1])
    /\ [][AppendsOneLast]_vars
    /\ [][(CallReturns /\ ModelReturned') =>
             /\ last'.before = conversation_history
             /\ conversation_history' =
                   Append(conversation_history, last'.added[1])]_vars

\* a question with surrounding blanks answered in an unrecognized mode
Wit_C3_SecondRecord ==
    /\ ModelReturned
    /\ last.question = " hi "
    /\ last.chain_type = "poem"
    /\ Len(last.before) = 1
    /\ Len(conversation_history) = 2

\* the step is the return of a call on which the collaborator raised
RaisedReturns ==
    \/ CallReturns /\ last'.outcome # <<>> /\ ~last'.outcome[1].ok
    \/ \E t \in Threads : /\ thr[t].pc = "invoking"
                           /\ thr'[t].pc = "asked"

\* C4: when the model raises on a non-empty question, in any mode,
\* ask_question returns ok=false with a non-empty error string, has
\* appended nothing, and leaves the history as it finds it; a call made
\* with no other call under way returns with the history it was entered
\* with.
Thm_C4_FailureLeavesHistory ==
    /\ [](ModelRaised =>
             /\ ~last.ok
             /\ Len(last.msg) > 0
             /\ last.added = <<>>
             /\ IsPrefix(last.before, conversation_history))
    /\ [][RaisedReturns =>
             /\ conversation_history' = conversation_history
             /\ ~last'.ok
             /\ last'.added = <<>>
             /\ CallReturns => last'.before = conversation_history]_vars

\* the model raising in analysis mode on a non-empty history
Wit_C4_RaisedInAnalysis ==
    /\ ModelRaised
    /\ last.chain_type = "analysis"
    /\ Len(last.before) = 1
    /\ Len(conversation_history) = 1

\* the prompt C5 states for a question and a mode, written out
StatedPrompt(question, mode) ==
    IF mode = "creative"
    THEN "You are a creative writing assistant. Create engaging and imaginative content.\n\nRequest: "
         \o question \o "\nStyle: engaging and creative\n\nCreative Response:"
    ELSE IF mode = "analysis"
    THEN "You are a professional analyst. Provide detailed analysis and insights.\n\nTopic: "
         \o question \o "\nFocus: comprehensive analysis\n\nProfessional Analysis:"
    ELSE "You are a knowledgeable AI assistant. Provide clear, accurate, and helpful answers.\n\nQuestion: "
         \o question
         \o "\n\nAnswer: Provide a comprehensive response that is informative and easy to understand."

\* C5: for a non-empty question, the one prompt handed to the model is the
\* mode's template filled in: qa with the question; creative with the
\* question as request and "engaging and creative" as style; analysis with
\* the question as topic and "comprehensive analysis" as focus; any other
\* mode as qa. (A call left by a keyboard interrupt before it reached the
\* model has handed it nothing.)
Thm_C5_PromptFromTemplate ==
    (Asked /\ Len(Strip(last.question)) > 0) =>
        \/ last.prompts = <<StatedPrompt(last.question, last.chain_type)>>
        \/ ~last.returned /\ last.prompts = <<>>

\* a creative request handed to the model
Wit_C5_CreativePrompt ==
    /\ Returned
    /\ last.chain_type = "creative"
    /\ last.question = " hi "
    /\ Len(last.prompts) = 1

\* C6: the summary of an empty history is the fixed message; otherwise it
\* has min(n, 5) entries, entry i being numbered i and rendering the record
\* at position n - min(n, 5) + i; for n = 7, entry 1 is the third record
\* and entry 5 the seventh.
Thm_C6_LastFiveInOrder ==
    summary.asked =>
        LET n == Len(conversation_history)
            m == Min(n, 5)
        IN  /\ n = 0 => /\ summary.header = "No conversation history available."
                        /\ summary.entries = <<>>
            /\ n > 0 =>
                /\ Len(summary.entries) = m
                /\ \A i \in 1..m :
                      /\ summary.entries[i] =
                            SummaryEntry(i, conversation_history[n - m + i])
                      /\ summary.entries[i][1] =
                            "**" \o IntStr(i) \o ". ["
                            \o conversation_history[n - m + i].timestamp
                            \o "]**\n"
            /\ n = 7 =>
                /\ summary.entries[1] = SummaryEntry(1, conversation_history[3])
                /\ summary.entries[5] = SummaryEntry(5, conversation_history[7])

\* the summary of a history of seven records
Wit_C6_SevenRecords ==
    /\ summary.asked
    /\ Len(conversation_history) = 7
    /\ Len(summary.entries) = 5

\* C7: each entry shows the question's first 100 characters, followed by
\* "..." exactly when the question is longer than 100, and the answer's
\* first 150 characters, followed by "..." exactly when the answer is
\* longer than 150.
Thm_C7_Truncation ==
    summary.asked =>
        LET n == Len(conversation_history)
            m == Min(n, 5)
        IN  \A i \in 1..Len(summary.entries) :
               LET q == conversation_history[n - m + i].question
                   a == conversation_history[n - m + i].answer
               IN  /\ summary.entries[i][2] =
                         IF Len(q) > 100
                         THEN "**Q:** " \o SubSeq(q, 1, 100) \o "...\n"
                         ELSE "**Q:** " \o q \o "\n"
                   /\ summary.entries[i][3] =
                         IF Len(a) > 150
                         THEN "**A:** " \o SubSeq(a, 1, 150) \o "...\n"
                         ELSE "**A:** " \o a \o "\n"

\* a summary showing a question of exactly 100 characters next to one of 101
Wit_C7_AtAndOverLimit ==
    /\ summary.asked
    /\ Len(conversation_history) = 2
    /\ Len(conversation_history[1].question) = 100
    /\ Len(conversation_history[1].answer) = 151
    /\ Len(conversation_history[2].question) = 101
    /\ Len(conversation_history[2].answer) = 150

\* the loop was left by a keyboard interrupt: through the break of except
\* KeyboardInterrupt, or with the interrupt propagating out of cli_mode
Interrupted ==
    \/ pc = "cli_raised"
    \/ pc = "cli_done" /\ out # <<>> /\ out[Len(out)] = "\nGoodbye!"

\* C8 as stated: a line equal to quit, exit or q ends the loop and no other
\* line does; the line history prints the summary without an ask; every
\* other line is passed to ask_question in qa mode. (Stated for the passes
\* that no keyboard interrupt cuts short.)
Orig_C8_CliLines ==
    (read # <<>> /\ ~Interrupted) =>
        LET line == read[1]
        IN  /\ (pc = "cli_done") <=> (line \in {"quit", "exit", "q"})
            /\ line = "history" => (summary.asked /\ ~Asked)
            /\ line \notin {"quit", "exit", "q", "history"} =>
                  /\ last.op = "cli"
                  /\ last.question = line
                  /\ last.chain_type = "qa"

\* C8 as amended: the line is stripped of surrounding whitespace and the
\* commands are matched without regard to case; a line that is then quit,
\* exit or q ends the loop, and besides such a line only a keyboard
\* interrupt does; in a pass that no interrupt cuts short, history prints
\* the summary without an ask, a blank line prints a notice without an
\* ask, and every other line is passed, stripped, to ask_question in qa
\* mode and the result is printed. A pass cut short by an interrupt has
\* made no call unless its line is such a question.
Thm_C8_CliLinesStripped ==
    /\ pc \in {"cli_done", "cli_raised"} =>
          (Interrupted \/ (read # <<>> /\ CliCommand(read[1]) = "quit"))
    /\ (read = <<>> /\ pc \in {"cli_loop", "cli_done", "cli_raised"}) =>
          ~Asked
    /\ read # <<>> =>
        LET question == Strip(read[1])
            word == Lower(question)
            asks == word \notin {"quit", "exit", "q", "history"}
                    /\ Len(question) > 0
        IN  /\ (word \in {"quit", "exit", "q"} /\ ~Interrupted) =>
                  /\ pc = "cli_done"
                  /\ ~summary.asked
                  /\ out = <<"Goodbye!">>
            /\ (word = "history" /\ ~Interrupted) =>
                  /\ pc = "cli_loop"
                  /\ summary.asked
                  /\ out = <<SummaryText(summary)>>
            /\ (Len(question) = 0 /\ ~Interrupted) =>
                  /\ pc = "cli_loop"
                  /\ ~summary.asked
                  /\ out = <<"Please enter a question.">>
            /\ (asks /\ ~Interrupted) =>
                  /\ pc = "cli_loop"
                  /\ last.op = "cli"
                  /\ last.returned
                  /\ last.question = question
                  /\ last.chain_type = "qa"
                  /\ out = <<"Thinking...",
                             (IF last.ok THEN "\nAI Response:\n"
                              ELSE "\nError: ") \o last.msg>>
            /\ ~asks => ~Asked
            /\ Asked =>
                  /\ last.op = "cli"
                  /\ last.question = question
                  /\ last.chain_type = "qa"

\* the loop ended by a line that is exit only once stripped and lowered
Wit_C8_ExitWithBlanks ==
    /\ read = <<" Exit ">>
    /\ pc = "cli_done"

\* the front end is accepting requests
Serving == pc \in {"api", "main_launched", "cli_loop"}

\* an empty input was reported by a front end
EmptyReported ==
    \/ out = <<"", "<div style='color: red;'>Please enter a question</div>">>
    \/ out = <<"Please enter a question.">>

\* the latest ask_question call returned ok=false
Failed == Returned /\ ~last.ok

\* a keyboard interrupt has ended the front end
Killed == Interrupted \/ pc = "main_raised"

\* C9 as stated: after any reported empty input or ask_question failure,
\* the startup path of main included, the front end is still serving.
\* (Stated for the runs that no keyboard interrupt ends.)
Orig_C9_NoErrorFatal ==
    ((EmptyReported \/ Failed) /\ ~Killed) => Serving

\* C9 as amended: after an empty input or an ask_question failure reported
\* by the interface's submit handler or by the CLI loop, that front end is
\* still serving, unless a keyboard interrupt ends it; a failure of the
\* system test in main makes main return before the interface is launched.
Thm_C9_FrontEndsKeepServing ==
    /\ EmptyReported => (Serving \/ Killed)
    /\ (last.op = "ui" /\ Failed) => pc = "main_launched"
    /\ (last.op = "cli" /\ Failed) => (pc = "cli_loop" \/ Interrupted)
    /\ (last.op = "main" /\ Failed) => pc \in {"main_returned", "main_raised"}
    /\ (last.op = "main" /\ Failed /\ pc = "main_returned") =>
          out[Len(out)] = "System test failed!"

\* the CLI loop still running after the model raised
Wit_C9_CliAfterFailure ==
    /\ last.op = "cli"
    /\ ModelRaised
    /\ pc = "cli_loop"
    /\ out[Len(out)] = "\nError: Error processing question: 429 quota exceeded"

\* C10 as stated: the failure message is the collaborator's error text
\* verbatim.
Orig_C10_ErrorVerbatim ==
    ModelRaised => last.msg = last.outcome[1].text

\* C10 as amended: the failure message is "Error processing question: "
\* followed by the collaborator's error text.
Thm_C10_ErrorPrefixed ==
    ModelRaised =>
        last.msg = "Error processing question: " \o last.outcome[1].text

\* the model raising with a quota error
Wit_C10_QuotaError ==
    /\ ModelRaised
    /\ last.outcome[1].text = "429 quota exceeded"
    /\ ~last.ok

\* C11: a call with a non-empty question hands exactly one prompt to the
\* collaborator, whether it answers or raises, and a call with an empty or
\* whitespace-only question hands it none; over the calls made so far the
\* invocations are as many as the calls with a non-empty question. (Stated
\* of calls that return; a call left by a keyboard interrupt has handed
\* over at most one prompt.)
Thm_C11_OneInvocationPerCall ==
    /\ stats.cut = 0 => stats.invoked = stats.nonEmpty
    /\ stats.invoked <= stats.nonEmpty
    /\ stats.nonEmpty <= stats.invoked + stats.cut
    /\ Returned =>
          Len(last.prompts) = (IF Len(Strip(last.question)) > 0 THEN 1 ELSE 0)
    /\ Asked => Len(last.prompts) <= 1
    /\ ModelRaised => Len(last.prompts) = 1

\* a blank call and then a call on which the collaborator raised
Wit_C11_BlankThenRaised ==
    /\ stats.calls = 2
    /\ stats.nonEmpty = 1
    /\ stats.invoked = 1
    /\ stats.cut = 0
    /\ ModelRaised

\* C12: every operation (ask_question in any mode, the summary, the
\* interface's submit and clear, the CLI's lines) leaves the history it
\* found as a prefix of the history it leaves: no record is changed,
\* reordered or removed.
Thm_C12_AppendOnly ==
    [][IsPrefix(conversation_history, conversation_history')]_vars

\* a second record appended behind the first
Wit_C12_SecondAppend ==
    /\ Len(conversation_history) = 2
    /\ Returned
    /\ last.ok
    /\ conversation_history[1] = last.before[1]

\* C13: every record's mode is one of qa, creative, analysis, also after
\* calls made with an unrecognized mode.
Orig_C13_ModeInEnum ==
    \A i \in 1..Len(conversation_history) :
        conversation_history[i].chain_type \in {"qa", "creative", "analysis"}

\* C15 as stated: the history never holds more records than the window
\* MEMORY_WINDOW the memory collaborator is constructed with.
Orig_C15_CappedByWindow ==
    Len(conversation_history) <= MEMORY_WINDOW

\* C15 as amended: the history is not capped by the memory collaborator's
\* window: every successful call appends one record behind the records
\* already there, also when MEMORY_WINDOW or more are there, so the history
\* holds as many records as there were successful calls.
Thm_C15_NotCapped ==
    /\ Len(conversation_history) = stats.ok
    /\ (ModelReturned /\ Len(last.before) >= MEMORY_WINDOW) =>
          /\ Len(conversation_history) = Len(last.before) + 1
          /\ IsPrefix(last.before, conversation_history)

\* an eleventh record appended
Wit_C15_EleventhRecord ==
    /\ ModelReturned
    /\ Len(last.before) = MEMORY_WINDOW
    /\ Len(conversation_history) = MEMORY_WINDOW + 1

\* the value of a decimal digit
DigitVal(c) == (CHOOSE i \in 1..Len(Digits) : Chr(Digits, i) = c) - 1

\* the seconds field of a "%Y-%m-%d %H:%M:%S" timestamp
SecondsOf(ts) == DigitVal(Chr(ts, 18)) * 10 + DigitVal(Chr(ts, 19))

\* C14: with submit events dispatched concurrently on one session, under
\* every interleaving the records' timestamps are non-decreasing in list
\* order and, whenever no call is under way, the history holds one record
\* for every call that succeeded.
Orig_C14_SerializedAppends ==
    /\ \A i \in 1..(Len(conversation_history) - 1) :
          SecondsOf(conversation_history[i].timestamp)
              <= SecondsOf(conversation_history[i + 1].timestamp)
    /\ NoneRunning => Len(conversation_history) = stats.ok

====
